---- MODULE Spec2Model ----
(***************************************************************************)
(* A model of the motion-canvas Scene (scheduler, lifecycle state machine  *)
(* and time-event ledger).                                                 *)
(*                                                                         *)
(* Times are seconds in the source.  Here a time is an integer number of   *)
(* ticks, TicksPerFrame ticks to a frame, so one second is                 *)
(* FPS * TicksPerFrame ticks and every frame boundary is a whole number of *)
(* ticks.  Floating-point rounding of the source's arithmetic is not       *)
(* modelled.                                                               *)
(***************************************************************************)
EXTENDS Integers, Sequences, FiniteSets, TLC

VARIABLES
  \* --- Scene fields -------------------------------------------------------
  state,              \* SceneState
  runnerFactory,      \* the routine the scene was given (a sequence of yields)
  runner,             \* the generator made by reset(): [routine, pos, done], or NoRunner
  previousScene,      \* back-reference handed to reset()
  cached,             \* Scene.cached
  preserveEvents,     \* Scene.preserveEvents
  timeEventLookup,    \* live ledger: name -> TimeEvent
  storedEventLookup,  \* durable store: name -> TimeEvent
  firstFrame,         \* Scene.firstFrame
  \* --- collaborators ------------------------------------------------------
  frame,              \* project.frame
  storage,            \* localStorage item under the scene's storage key
  activeScene,        \* the ambient slot written by setScene()
  previousHidden,     \* whether hide() was called on the previous scene
  \* --- control state of suspended calls ----------------------------------
  pc,                 \* position of next(): "idle" or "await"
  trans,              \* the generator returned by transition()
  \* --- what the last call produced ---------------------------------------
  lastCall,           \* the call that made the last step and its arguments
  dispatched,         \* payloads sent to TimeEventsChanged listeners by the last call
  warned,             \* console.warn messages of the last call
  returned,           \* value returned by the last getFrameEvent()
  thrown,             \* whether the last call ended with an error
  sent,               \* arguments of the generator resumptions of the last next()
  \* --- history ------------------------------------------------------------
  nextCalls,          \* next() calls begun since the last reset(), that call's own included
  atReload,           \* the live ledger the last reload() cleared, kept while events are
                      \* requested anew (empty after any other call on the ledger)
  \* --- layout, Stage ------------------------------------------------------
  layout,             \* the node tree's layout and the position of updateLayout()
  stage,              \* Stage fields
  rend                \* position and drawing of Stage.render()

vars == <<state, runnerFactory, runner, previousScene, cached, preserveEvents,
          timeEventLookup, storedEventLookup, firstFrame, frame, storage,
          activeScene, previousHidden, pc, trans, lastCall, dispatched, warned,
          returned, thrown, sent, nextCalls, atReload, layout, stage, rend>>

stageVars == <<layout, stage, rend>>

sceneVars == <<state, runner, previousScene, activeScene, previousHidden, pc,
               trans, nextCalls, sent, stageVars>>

ledgerVars == <<cached, preserveEvents, timeEventLookup, storedEventLookup,
                storage, atReload>>

-----------------------------------------------------------------------------
(* Bounds *)

MaxFrame == 1          \* the project visits the scene's frames 0..MaxFrame
TicksPerFrame == 2     \* resolution of times: ticks per frame
MaxLen == 2            \* longest routine, in yields
MaxCalls == 4          \* next() calls counted after a reset()
MaxSteps == 2          \* most yields of a transition strategy
MaxCascade == 12       \* most layout passes a node tree needs to settle
MaxInstances == 2      \* most MoblurRenderer objects one Stage constructs

FPS == 2               \* frames per second of the project

Names == {"a", "b"}
OneSecond == FPS * TicksPerFrame
Offsets == {-1, 0, 1, OneSecond}

\* times the model follows: a call that would leave this window is not taken
MaxTime == OneSecond + MaxFrame * TicksPerFrame
InWindow(event) ==
  /\ event.targetTime \in -MaxTime..MaxTime
  /\ event.offset \in -MaxTime..MaxTime

\* What a routine can yield: nothing, a truthy value that is no promise, a promise.
Items == {"none", "invalid", "promise"}

\* ... and a promise yielded inside a try block whose handler lets the routine go on
AsyncItems == Items \cup {"guarded"}

\* isPromise(value)
isPromise(value) == value \in {"promise", "guarded"}

\* what a promise can be fulfilled with
Values == {"v1", "v2"}
Undefined == "undefined"
OtherScene == "other"

RECURSIVE SeqsUpTo(_, _)
SeqsUpTo(S, n) ==
  IF n = 0 THEN {<<>>}
  ELSE LET shorter == SeqsUpTo(S, n - 1)
       IN  shorter \cup {Append(s, x) : s \in {t \in shorter : Len(t) = n - 1}, x \in S}

Routines == SeqsUpTo(Items, MaxLen)

\* the routines reload() swaps in
ReloadRoutines == SeqsUpTo(Items, 1)

RoutinesAsync == SeqsUpTo(AsyncItems, MaxLen)

-----------------------------------------------------------------------------
(* SceneState *)

Initial == "Initial"
AfterTransitionIn == "AfterTransitionIn"
CanTransitionOut == "CanTransitionOut"
Finished == "Finished"
SceneState == {Initial, AfterTransitionIn, CanTransitionOut, Finished}

NoScene == "null"
ThisScene == "this"
PrevScene == "previous"
NoRunner == [routine |-> <<>>, pos |-> -1, done |-> FALSE]
NoTransition == [status |-> "idle", strategy |-> FALSE, left |-> 0]
NoReturn == -1000
NoLayout == [pc |-> "idle", cascade |-> 0, pending |-> 0, dirty |-> FALSE,
             limit |-> -1, passes |-> 0, total |-> 0, result |-> FALSE]

\* Partial<StageSettings>: a property is given or left out
Absent(value) == [given |-> FALSE, value |-> value]
Given(value) == [given |-> TRUE, value |-> value]
Option(values, filler) == {Absent(filler)} \cup {Given(v) : v \in values}

\* a destructuring default: the property when given, else the field
Default(option, field) == IF option.given THEN option.value ELSE field

Vector2zero == <<0, 0>>
Sizes == {<<2, 1>>}
Scales == {2}
ColorSpaces == {"display-p3"}
SampleCounts == {1, 2, 3}

\* Color | string | null
Null == [kind |-> "null", text |-> ""]
String(text) == [kind |-> "string", text |-> text]
Color(name) == [kind |-> "color", text |-> name]
Backgrounds == {Null, String(""), String("#000"), Color("red")}

\* the options objects passed: motionBlur or not, and at most one other property
StageSettings ==
  {options \in [colorSpace : Option(ColorSpaces, "srgb"),
                size : Option(Sizes, Vector2zero),
                resolutionScale : Option(Scales, 1),
                motionBlur : Option(SampleCounts, 1),
                background : Option(Backgrounds, Null)] :
     Cardinality({key \in {"colorSpace", "size", "resolutionScale", "background"} :
                    options[key].given}) <= 1}

\* finalBuffer, currentBuffer, previousBuffer
Buffers == {"final", "current", "previous"}

\* the size of a canvas element that document.createElement('canvas') returns
CanvasDefault == <<300, 150>>

\* moblurRenderer = null
NoRenderer == [present |-> FALSE, id |-> 0, size |-> Vector2zero, samples |-> 0]

\* new MoblurRenderer(size, samples), the id-th object constructed
MoblurRenderer(id, size, samples) ==
  [present |-> TRUE, id |-> id, size |-> size, samples |-> samples]

\* no configure() call is the latest call
NotAsked == [motionBlur |-> Absent(1), support |-> FALSE]

\* the Stage after its constructor
NewStage ==
  [background |-> Null, resolutionScale |-> 1, colorSpace |-> "srgb",
   size |-> Vector2zero, motionBlurSamples |-> 1, moblurRenderer |-> NoRenderer,
   contextSpace |-> "srgb", canvas |-> [buffer \in Buffers |-> CanvasDefault],
   created |-> 0,
   asked |-> NotAsked]

\* no render() call yet
NoRender ==
  [pc |-> "idle", previous |-> FALSE, flag |-> FALSE, onTop |-> FALSE,
   via |-> <<>>, rendered |-> <<>>, ops |-> <<>>]

TimeEvent(name, initialTime, targetTime, offset) ==
  [name |-> name, initialTime |-> initialTime, targetTime |-> targetTime,
   offset |-> offset]

EmptyLookup == [n \in {} |-> TimeEvent("", 0, 0, 0)]

Max(a, b) == IF a >= b THEN a ELSE b

\* lookup[name] = event
Put(lookup, name, event) ==
  [n \in DOMAIN lookup \cup {name} |-> IF n = name THEN event ELSE lookup[n]]

\* {...a, ...b}
Spread(a, b) ==
  [n \in DOMAIN a \cup DOMAIN b |-> IF n \in DOMAIN b THEN b[n] ELSE a[n]]

\* the getter reads the durable store
timeEvents_Stored == {storedEventLookup[n] : n \in DOMAIN storedEventLookup}

\* Object.values(this.timeEventLookup)
timeEvents == {timeEventLookup[n] : n \in DOMAIN timeEventLookup}

Call(op, name, offset, preserve) ==
  [op |-> op, name |-> name, offset |-> offset, preserve |-> preserve]

Op(op) == Call(op, "", 0, FALSE)

-----------------------------------------------------------------------------
(* Project: conversion between frames and seconds *)

framesToSeconds(frames) == frames * TicksPerFrame

\* Math.ceil(seconds * fps)
secondsToFrames(seconds) == -((-seconds) \div TicksPerFrame)

-----------------------------------------------------------------------------
(* The durable timing store: JSON text under the storage key *)

NoItemStored == [present |-> FALSE, values |-> {}]

\* JSON.stringify(this.storedEventLookup): the text keeps the records
JSONstringify(lookup) ==
  [present |-> TRUE, values |-> {lookup[n] : n \in DOMAIN lookup}]

\* the constructor's loop over Object.values(JSON.parse(storedEvents))
ParseStored(item) ==
  IF item.present
  THEN [n \in {e.name : e \in item.values} |->
          CHOOSE e \in item.values : e.name = n]
  ELSE EmptyLookup

-----------------------------------------------------------------------------
(* Time-event ledger *)

\* the stored record is ignored
NewEvent_Unseeded(name, initialTime, stored, preserve) ==
  TimeEvent(name, initialTime, initialTime, 0)

\* getFrameEvent, first branch: the event made for an unseen name
NewEvent(name, initialTime, stored, preserve) ==
  IF name \in DOMAIN stored
  THEN IF preserve
       THEN TimeEvent(name, initialTime, initialTime + stored[name].offset,
                      stored[name].offset)
       ELSE TimeEvent(name, initialTime, stored[name].targetTime,
                      Max(0, stored[name].targetTime - initialTime))
  ELSE TimeEvent(name, initialTime, initialTime, 0)

\* the preserve flag is not looked at
DriftedEvent_KeepsTarget(event, initialTime, preserve) ==
  TimeEvent(event.name, initialTime, event.targetTime,
            Max(0, event.targetTime - initialTime))

\* the offset is recomputed without the clamp
DriftedEvent_NoClamp(event, initialTime, preserve) ==
  IF preserve
  THEN TimeEvent(event.name, initialTime, initialTime + event.offset, event.offset)
  ELSE TimeEvent(event.name, initialTime, event.targetTime,
                 event.targetTime - initialTime)

\* getFrameEvent, second branch: the event after its initialTime drifted
DriftedEvent(event, initialTime, preserve) ==
  IF preserve
  THEN TimeEvent(event.name, initialTime, initialTime + event.offset, event.offset)
  ELSE TimeEvent(event.name, initialTime, event.targetTime,
                 Max(0, event.targetTime - initialTime))

\* getFrameEvent, the returned frame
EventFrame(first, event) ==
  first + secondsToFrames(event.initialTime + event.offset)

\* targetTime is left as it was
AdjustedEvent_StaleTarget(event, offset) ==
  TimeEvent(event.name, event.initialTime, event.targetTime, offset)

\* setFrameEvent, the record written to both lookups
AdjustedEvent(event, offset) ==
  TimeEvent(event.name, event.initialTime, event.initialTime + offset, offset)

\* the offset is not compared
SetIsNoOp_UnknownOnly(lookup, name, offset) == name \notin DOMAIN lookup

\* setFrameEvent, the early return
SetIsNoOp(lookup, name, offset) ==
  \/ name \notin DOMAIN lookup
  \/ lookup[name].offset = offset

Outputs(call, payloads, warnings, value, error) ==
  /\ lastCall' = call
  /\ dispatched' = payloads
  /\ warned' = warnings
  /\ returned' = value
  /\ thrown' = error

getFrameEvent(name) ==
  LET initialTime == framesToSeconds(frame - firstFrame)
      live == IF name \notin DOMAIN timeEventLookup
              THEN Put(timeEventLookup, name,
                       NewEvent(name, initialTime, storedEventLookup, preserveEvents))
              ELSE IF timeEventLookup[name].initialTime # initialTime
              THEN Put(timeEventLookup, name,
                       DriftedEvent(timeEventLookup[name], initialTime, preserveEvents))
              ELSE timeEventLookup
      drifted == /\ name \in DOMAIN timeEventLookup
                 /\ timeEventLookup[name].initialTime # initialTime
      changed == name \notin DOMAIN timeEventLookup \/ drifted
  IN  /\ InWindow(live[name])
      /\ timeEventLookup' = live
      /\ storedEventLookup' = IF drifted
                              THEN Put(storedEventLookup, name, live[name])
                              ELSE storedEventLookup
      /\ Outputs(Call("getFrameEvent", name, 0, FALSE),
                 IF changed THEN <<timeEvents'>> ELSE <<>>,
                 <<>>, EventFrame(firstFrame, live[name]), FALSE)
      /\ atReload' = IF name \in DOMAIN timeEventLookup THEN EmptyLookup ELSE atReload
      /\ UNCHANGED <<cached, preserveEvents, storage>>
      /\ UNCHANGED <<sceneVars, runnerFactory, firstFrame, frame>>

setFrameEvent(name, offset, preserve) ==
  /\ IF SetIsNoOp(timeEventLookup, name, offset)
     THEN /\ UNCHANGED <<cached, preserveEvents, timeEventLookup, storedEventLookup>>
          /\ dispatched' = <<>>
     ELSE LET event == AdjustedEvent(timeEventLookup[name], offset)
          IN  /\ cached' = FALSE
              /\ preserveEvents' = preserve
              /\ timeEventLookup' = Put(timeEventLookup, name, event)
              /\ storedEventLookup' = Put(storedEventLookup, name, event)
              /\ dispatched' = <<timeEvents'>>
  /\ lastCall' = Call("setFrameEvent", name, offset, preserve)
  /\ warned' = <<>>
  /\ returned' = NoReturn
  /\ thrown' = FALSE
  /\ atReload' = EmptyLookup
  /\ UNCHANGED storage
  /\ UNCHANGED <<sceneVars, runnerFactory, firstFrame, frame>>

markAsCached ==
  /\ cached' = TRUE
  /\ preserveEvents' = FALSE
  /\ storage' = JSONstringify(storedEventLookup)
  /\ Outputs(Op("markAsCached"), <<>>, <<>>, NoReturn, FALSE)
  /\ atReload' = EmptyLookup
  /\ UNCHANGED <<timeEventLookup, storedEventLookup>>
  /\ UNCHANGED <<sceneVars, runnerFactory, firstFrame, frame>>

\* reload(runnerFactory?): swap is TRUE when a routine is passed
reload(swap, routine) ==
  /\ runnerFactory' = IF swap THEN routine ELSE runnerFactory
  /\ cached' = FALSE
  /\ storedEventLookup' = Spread(storedEventLookup, timeEventLookup)
  /\ timeEventLookup' = EmptyLookup
  /\ atReload' = timeEventLookup
  /\ Outputs(Op("reload"), <<{}>>, <<>>, NoReturn, FALSE)
  /\ UNCHANGED <<preserveEvents, storage>>
  /\ UNCHANGED <<sceneVars, firstFrame, frame>>

\* new Scene(project, runnerFactory) under the same storage key
Construct(routine) ==
  /\ runnerFactory' = routine
  /\ state' = Initial
  /\ runner' = NoRunner
  /\ previousScene' = NoScene
  /\ cached' = FALSE
  /\ preserveEvents' = FALSE
  /\ timeEventLookup' = EmptyLookup
  /\ storedEventLookup' = ParseStored(storage)
  /\ pc' = "idle"
  /\ trans' = NoTransition
  /\ nextCalls' = 0
  /\ atReload' = EmptyLookup
  /\ Outputs(Op("construct"), <<>>, <<>>, NoReturn, FALSE)
  /\ sent' = <<>>
  /\ firstFrame' = 0
  /\ layout' = NoLayout
  /\ UNCHANGED <<frame, storage, activeScene, previousHidden, stage, rend>>

\* the project moves to another frame
Seek(f) ==
  /\ f # frame
  /\ frame' = f
  /\ Outputs(Op("seek"), <<>>, <<>>, NoReturn, FALSE)
  /\ UNCHANGED <<ledgerVars, sceneVars, runnerFactory, firstFrame>>

-----------------------------------------------------------------------------
(* Layout: updateLayout() over a node tree that needs some passes to settle *)

LayoutLimit == 10

\* a tree that every pass leaves dirty
Forever == -1

\* super.updateLayout(): one pass over a tree that still needs pending passes
PassOver(pending) ==
  IF pending = Forever THEN Forever ELSE Max(0, pending - 1)

\* wasDirty() after a pass over a tree that needed pending passes
wasDirty(pending) == pending # 0

\* the limit is compared with >=
LoopContinues_OneMore(dirty, limit) == dirty /\ limit >= 0

\* while (this.wasDirty() && limit > 0)
LoopContinues(dirty, limit) == dirty /\ limit > 0

\* updateLayout() up to the loop: the first pass, result, limit.  The tree
\* needs cascade passes to settle; before is the number of passes the handler
\* that makes the call has made so far.
LayoutCall(cascade, before) ==
  [pc |-> "loop", cascade |-> cascade, pending |-> PassOver(cascade),
   dirty |-> wasDirty(cascade), limit |-> LayoutLimit, passes |-> 1,
   total |-> before + 1, result |-> wasDirty(cascade)]

\* one turn of the loop: another pass, limit--
LayoutTurn(l) ==
  [l EXCEPT !.pending = PassOver(l.pending), !.dirty = wasDirty(l.pending),
            !.limit = l.limit - 1, !.passes = l.passes + 1,
            !.total = l.total + 1]

\* if (limit === 0) console.warn(...)
LayoutWarning(l) ==
  IF l.limit = 0 THEN <<"Layout iteration limit exceeded">> ELSE <<>>

\* return result
LayoutEnd(l) == [l EXCEPT !.pc = "idle"]

\* the loop, from a position in it to the return
RECURSIVE LayoutLoop(_)
LayoutLoop(l) ==
  IF LoopContinues(l.dirty, l.limit) THEN LayoutLoop(LayoutTurn(l)) ELSE LayoutEnd(l)

\* this.updateLayout() inside a handler, from call to return; log holds the
\* warnings and the layout record of the handler so far
Laid(cascade, log) ==
  LET l == LayoutLoop(LayoutCall(cascade, log.layout.total))
  IN  [warnings |-> log.warnings \o LayoutWarning(l), layout |-> l]

\* a handler begins: nothing warned, no pass made
NoLog == [warnings |-> <<>>, layout |-> NoLayout]

\* what the node tree needs when a handler calls updateLayout(): the passes
\* it takes to settle it after the routine has run
Cascades == {0, 1, Forever}

\* a node tree that one pass finds clean
Settled == {0}

-----------------------------------------------------------------------------
(* Scheduler: the generator threads() makes of a routine *)

NewRunner(routine) == [routine |-> routine, pos |-> 0, done |-> FALSE]

\* runner.next(): the generator moves to its next yield, or completes
RunnerNext(r) ==
  IF r.pos < Len(r.routine)
  THEN [r EXCEPT !.pos = r.pos + 1]
  ELSE [r EXCEPT !.done = TRUE]

\* result.value of the step that left the generator as r
Yielded(r) == IF r.done THEN "none" ELSE r.routine[r.pos]

\* a value that is no promise ends the call like a yield of nothing
Drive_InvalidSuspends(r, cascade, log) ==
  [runner |-> r, warnings |-> log.warnings, layout |-> log.layout,
   await |-> isPromise(Yielded(r)), sent |-> <<>>]

\* next(), the while loop entered with the result that left the generator as r:
\* a value that is no promise is warned about and the generator resumed at once,
\* with no argument; the loop leaves at a yield of nothing, at completion, or
\* suspends on a promise.  Every turn ends with this.updateLayout().  sent
\* lists the arguments of the resumptions made.
RECURSIVE Drive(_, _, _)
Drive(r, cascade, log) ==
  IF Yielded(r) = "invalid"
  THEN LET warning == [log EXCEPT !.warnings = Append(@, "Invalid value")]
           d == Drive(RunnerNext(r), cascade, Laid(cascade, warning))
       IN  [d EXCEPT !.sent = <<Undefined>> \o d.sent]
  ELSE [runner |-> r, warnings |-> log.warnings, layout |-> log.layout,
        await |-> isPromise(Yielded(r)), sent |-> <<>>]

\* runner.next() is called without the awaited value
Resumption_NoValue(value) == Undefined

\* const value = await result.value; result = this.runner.next(value)
Resumption(value) == value

\* the state is set without looking at result.done
StateAfterNext_Always(old, r) == Finished

\* next(), after the loop
StateAfterNext(old, r) == IF r.done THEN Finished ELSE old

\* the part of next() from a resumption of the generator r, and the
\* updateLayout() after it, to return or suspension
Advance(old, r, cascade, argument) ==
  LET d == Drive(RunnerNext(r), cascade, Laid(cascade, NoLog))
  IN  /\ runner' = d.runner
      /\ sent' = <<argument>> \o d.sent
      /\ warned' = d.warnings
      /\ layout' = d.layout
      /\ pc' = IF d.await THEN "await" ELSE "idle"
      /\ state' = IF d.await THEN old ELSE StateAfterNext(old, d.runner)

NoOutput(call) ==
  /\ lastCall' = call
  /\ dispatched' = <<>>
  /\ returned' = NoReturn
  /\ thrown' = FALSE

\* next(), called while no call of this scene is suspended.  Before the first
\* reset() there is no runner: this.runner.next() throws a TypeError.
next(cascade) ==
  /\ pc = "idle"
  /\ nextCalls < MaxCalls
  /\ activeScene' = ThisScene
  /\ IF runner = NoRunner
     THEN /\ lastCall' = Op("next")
          /\ dispatched' = <<>>
          /\ warned' = <<>>
          /\ returned' = NoReturn
          /\ thrown' = TRUE
          /\ sent' = <<>>
          /\ UNCHANGED <<state, runner, pc, layout>>
     ELSE /\ Advance(state, runner, cascade, Undefined)
          /\ NoOutput(Op("next"))
  /\ nextCalls' = nextCalls + 1
  /\ UNCHANGED <<previousScene, previousHidden, trans>>
  /\ UNCHANGED <<ledgerVars, stage, rend, runnerFactory, firstFrame, frame>>

\* the awaited promise is fulfilled: next() resumes the generator with its value
PromiseResolve(value, cascade) ==
  /\ pc = "await"
  /\ Advance(state, runner, cascade, Resumption(value))
  /\ NoOutput(Call("resolve", value, 0, FALSE))
  /\ UNCHANGED <<previousScene, previousHidden, trans, activeScene, nextCalls>>
  /\ UNCHANGED <<ledgerVars, stage, rend, runnerFactory, firstFrame, frame>>

\* the awaited promise is rejected: the await throws inside next()
PromiseReject ==
  /\ pc = "await"
  /\ pc' = "idle"
  /\ lastCall' = Op("reject")
  /\ dispatched' = <<>>
  /\ warned' = <<>>
  /\ returned' = NoReturn
  /\ thrown' = TRUE
  /\ sent' = <<>>
  /\ UNCHANGED <<state, runner, previousScene, previousHidden, trans, activeScene,
                 nextCalls>>
  /\ UNCHANGED <<ledgerVars, stageVars, runnerFactory, firstFrame, frame>>

\* reset(previousScene): a new runner, the state Initial, then next()
reset(previous, cascade) ==
  /\ pc = "idle"
  /\ previousScene' = previous
  /\ activeScene' = ThisScene
  /\ Advance(Initial, NewRunner(runnerFactory), cascade, Undefined)
  /\ nextCalls' = 1
  /\ NoOutput(Op("reset"))
  /\ UNCHANGED <<previousHidden, trans>>
  /\ UNCHANGED <<ledgerVars, stage, rend, runnerFactory, firstFrame, frame>>

\* next() or reset() of another scene runs up to its return or suspension:
\* of what this scene sees, it only writes the ambient slot
OtherSceneNext ==
  /\ activeScene' = OtherScene
  /\ warned' = <<>>
  /\ NoOutput(Op("other.next"))
  /\ UNCHANGED <<state, runner, previousScene, previousHidden, pc, trans,
                 nextCalls, sent>>
  /\ UNCHANGED <<ledgerVars, stageVars, runnerFactory, firstFrame, frame>>

-----------------------------------------------------------------------------
(* Lifecycle state machine *)

\* the state is not checked
StateAfterCanFinish_Any(old) == CanTransitionOut

\* canFinish()
StateAfterCanFinish(old) ==
  IF old = AfterTransitionIn THEN CanTransitionOut ELSE old

CanFinishWarns(old) == old # AfterTransitionIn

\* the state is not checked
StateAfterTransition_Any(old) == AfterTransitionIn

\* the end of transition()
StateAfterTransition(old) ==
  IF old = Initial THEN AfterTransitionIn ELSE old

TransitionWarns(old) == old # Initial

isAfterTransitionIn == state = AfterTransitionIn
isFinished == state = Finished
canTransitionOut == state = CanTransitionOut \/ state = Finished

canFinish ==
  /\ state' = StateAfterCanFinish(state)
  /\ warned' = IF CanFinishWarns(state)
               THEN <<"marked as finished in an unexpected state">> ELSE <<>>
  /\ NoOutput(Op("canFinish"))
  /\ UNCHANGED <<runner, previousScene, activeScene, previousHidden, pc, trans,
                 nextCalls, sent>>
  /\ UNCHANGED <<ledgerVars, stageVars, runnerFactory, firstFrame, frame>>

\* transition(transitionRunner?): makes the generator, runs nothing of it.
\* A strategy is given by the number of times it yields before it completes.
transition(strategy, yields) ==
  /\ trans.status \in {"idle", "done"}
  /\ trans' = [status |-> "created", strategy |-> strategy,
               left |-> IF strategy THEN yields ELSE 0]
  /\ warned' = <<>>
  /\ NoOutput(Op("transition"))
  /\ UNCHANGED <<state, runner, previousScene, activeScene, previousHidden, pc,
                 nextCalls, sent>>
  /\ UNCHANGED <<ledgerVars, stageVars, runnerFactory, firstFrame, frame>>

\* the transition generator is resumed: it runs to the strategy's next yield,
\* or past the strategy (or past hide()) to its end
TransitionResume ==
  /\ trans.status \in {"created", "suspended"}
  /\ IF trans.strategy /\ trans.left > 0
     THEN /\ trans' = [trans EXCEPT !.status = "suspended", !.left = trans.left - 1]
          /\ warned' = <<>>
          /\ UNCHANGED <<state, previousHidden>>
     ELSE /\ trans' = [trans EXCEPT !.status = "done"]
          /\ previousHidden' = IF ~trans.strategy /\ previousScene # NoScene
                               THEN TRUE ELSE previousHidden
          /\ state' = StateAfterTransition(state)
          /\ warned' = IF TransitionWarns(state)
                       THEN <<"transitioned in an unexpected state">> ELSE <<>>
  /\ NoOutput(Op("transition.next"))
  /\ UNCHANGED <<runner, previousScene, activeScene, pc, nextCalls, sent>>
  /\ UNCHANGED <<ledgerVars, stageVars, runnerFactory, firstFrame, frame>>

-----------------------------------------------------------------------------
(* Layout: updateLayout() called on its own, step by step *)

\* updateLayout() called on its own, up to the loop
updateLayout(cascade) ==
  /\ layout.pc = "idle"
  /\ layout' = LayoutCall(cascade, 0)
  /\ warned' = <<>>
  /\ NoOutput(Op("updateLayout"))
  /\ UNCHANGED <<stage, rend, sent>>
  /\ UNCHANGED <<state, runner, previousScene, activeScene, previousHidden, pc,
                 trans, nextCalls>>
  /\ UNCHANGED <<ledgerVars, runnerFactory, firstFrame, frame>>

\* one turn of the loop: another pass, limit--
LayoutPass ==
  /\ layout.pc = "loop"
  /\ LoopContinues(layout.dirty, layout.limit)
  /\ layout' = LayoutTurn(layout)
  /\ warned' = <<>>
  /\ NoOutput(Op("updateLayout.pass"))
  /\ UNCHANGED <<stage, rend, sent>>
  /\ UNCHANGED <<state, runner, previousScene, activeScene, previousHidden, pc,
                 trans, nextCalls>>
  /\ UNCHANGED <<ledgerVars, runnerFactory, firstFrame, frame>>

\* the loop is left: the warning when limit is 0, and the return
LayoutReturn ==
  /\ layout.pc = "loop"
  /\ ~LoopContinues(layout.dirty, layout.limit)
  /\ layout' = LayoutEnd(layout)
  /\ warned' = LayoutWarning(layout)
  /\ NoOutput(Op("updateLayout.return"))
  /\ UNCHANGED <<stage, rend, sent>>
  /\ UNCHANGED <<state, runner, previousScene, activeScene, previousHidden, pc,
                 trans, nextCalls>>
  /\ UNCHANGED <<ledgerVars, runnerFactory, firstFrame, frame>>

-----------------------------------------------------------------------------
(* Stage: configure() and render() *)

\* Vector2.scale
Scale(size, factor) == <<size[1] * factor, size[2] * factor>>

\* canvasSize
canvasSize(size, resolutionScale) == Scale(size, resolutionScale)

\* Color.serialize()
Serialize(name) == IF name = "red" THEN "rgba(255,0,0,1)" ELSE "rgba(0,0,0,1)"

\* typeof background === 'string' ? background : background?.serialize() ?? null
StoredBackground(background) ==
  CASE background.kind = "string" -> background
    [] background.kind = "color" -> String(Serialize(background.text))
    [] OTHER -> Null

\* if (this.background)
Truthy(background) == background.kind = "string" /\ background.text # ""

\* the capability probe is not consulted
MoblurCleared_NoProbe(motionBlur, support) == motionBlur <= 1

\* motionBlur <= 1 || !MoblurRenderer.checkSupport()
MoblurCleared(motionBlur, support) == motionBlur <= 1 \/ ~support

\* configure(options), with support the answer of MoblurRenderer.checkSupport()
configure(options, support) ==
  LET colorSpace == Default(options.colorSpace, stage.colorSpace)
      size == Default(options.size, stage.size)
      resolutionScale == Default(options.resolutionScale, stage.resolutionScale)
      motionBlur == Default(options.motionBlur, stage.motionBlurSamples)
      background == Default(options.background, stage.background)
      resized == size # stage.size \/ resolutionScale # stage.resolutionScale
      cleared == MoblurCleared(motionBlur, support)
      constructs == ~cleared /\ ~stage.moblurRenderer.present
      renderer == IF cleared THEN NoRenderer
                  ELSE IF constructs
                       THEN MoblurRenderer(stage.created + 1, size, motionBlur)
                       ELSE stage.moblurRenderer
  IN /\ constructs => stage.created < MaxInstances
     /\ stage' = [stage EXCEPT
           !.colorSpace = colorSpace,
           !.contextSpace = colorSpace,
           !.resolutionScale = resolutionScale,
           !.size = size,
           !.canvas = IF resized
                      THEN [buffer \in Buffers |->
                              canvasSize(size, resolutionScale)]
                      ELSE stage.canvas,
           !.moblurRenderer = IF renderer.present
                              THEN [renderer EXCEPT !.size = size,
                                                    !.samples = motionBlur]
                              ELSE renderer,
           !.created = IF constructs THEN stage.created + 1 ELSE stage.created,
           !.background = StoredBackground(background),
           !.asked = [motionBlur |-> options.motionBlur, support |-> support]]
     /\ warned' = <<>>
     /\ NoOutput(Op("configure"))
     /\ UNCHANGED <<layout, rend, sent>>
     /\ UNCHANGED <<state, runner, previousScene, activeScene, previousHidden,
                    pc, trans, nextCalls>>
     /\ UNCHANGED <<ledgerVars, runnerFactory, firstFrame, frame>>

\* resizeCanvas(context), with the context of one of the three buffers
resizeCanvas(buffer) ==
  /\ stage' = [stage EXCEPT
        !.canvas[buffer] = canvasSize(stage.size, stage.resolutionScale),
        !.asked = NotAsked]
  /\ warned' = <<>>
  /\ NoOutput(Op("resizeCanvas"))
  /\ UNCHANGED <<layout, rend, sent>>
  /\ UNCHANGED <<state, runner, previousScene, activeScene, previousHidden, pc,
                 trans, nextCalls>>
  /\ UNCHANGED <<ledgerVars, runnerFactory, firstFrame, frame>>

\* renderScene() up to its await: through the accumulator when there is one
renderScene(renderer) == IF renderer.present THEN "moblur" ELSE "direct"

\* the flag is read whether or not there is a previous scene
previousOnTop_Unguarded(previous, flag) == flag

\* previousScene ? unwrap(currentScene.previousOnTop) : false
previousOnTop(previous, flag) == IF previous THEN flag ELSE FALSE

\* lines 120-135: clear, fill, draws, with no await between them
Composite(previous, onTop, background) ==
  <<"clear">>
  \o (IF Truthy(background) THEN <<"fill">> ELSE <<>>)
  \o (IF previous /\ ~onTop THEN <<"previous">> ELSE <<>>)
  \o <<"current">>
  \o (IF onTop THEN <<"previous">> ELSE <<>>)

\* render(currentScene, previousScene) up to its first await
render(previous, flag) ==
  /\ rend.pc = "idle"
  /\ rend' = [pc |-> IF previous THEN "previous" ELSE "current",
              previous |-> previous, flag |-> flag,
              onTop |-> previousOnTop(previous, flag),
              via |-> <<renderScene(stage.moblurRenderer)>>,
              rendered |-> <<>>, ops |-> <<>>]
  /\ stage' = [stage EXCEPT !.asked = NotAsked]
  /\ warned' = <<>>
  /\ NoOutput(Op("render"))
  /\ UNCHANGED <<layout, sent>>
  /\ UNCHANGED <<state, runner, previousScene, activeScene, previousHidden, pc,
                 trans, nextCalls>>
  /\ UNCHANGED <<ledgerVars, runnerFactory, firstFrame, frame>>

\* the previous scene's render settles; the current scene's render begins
PreviousRendered ==
  /\ rend.pc = "previous"
  /\ rend' = [rend EXCEPT !.pc = "current",
                          !.rendered = Append(rend.rendered, "previous"),
                          !.via = Append(rend.via,
                                         renderScene(stage.moblurRenderer))]
  /\ stage' = [stage EXCEPT !.asked = NotAsked]
  /\ warned' = <<>>
  /\ NoOutput(Op("render.previous"))
  /\ UNCHANGED <<layout, sent>>
  /\ UNCHANGED <<state, runner, previousScene, activeScene, previousHidden, pc,
                 trans, nextCalls>>
  /\ UNCHANGED <<ledgerVars, runnerFactory, firstFrame, frame>>

\* the current scene's render settles; the final surface is drawn
CurrentRendered ==
  /\ rend.pc = "current"
  /\ rend' = [rend EXCEPT !.pc = "idle",
                          !.rendered = Append(rend.rendered, "current"),
                          !.ops = Composite(rend.previous, rend.onTop,
                                            stage.background)]
  /\ stage' = [stage EXCEPT !.asked = NotAsked]
  /\ warned' = <<>>
  /\ NoOutput(Op("render.current"))
  /\ UNCHANGED <<layout, sent>>
  /\ UNCHANGED <<state, runner, previousScene, activeScene, previousHidden, pc,
                 trans, nextCalls>>
  /\ UNCHANGED <<ledgerVars, runnerFactory, firstFrame, frame>>

-----------------------------------------------------------------------------

InitScene(routine, first) ==
  /\ runnerFactory = routine
  /\ state = Initial
  /\ runner = NoRunner
  /\ previousScene = NoScene
  /\ cached = FALSE
  /\ preserveEvents = FALSE
  /\ timeEventLookup = EmptyLookup
  /\ storedEventLookup = EmptyLookup
  /\ firstFrame = first
  /\ frame = first
  /\ storage = NoItemStored
  /\ activeScene = NoScene
  /\ previousHidden = FALSE
  /\ pc = "idle"
  /\ trans = NoTransition
  /\ lastCall = Op("construct")
  /\ dispatched = <<>>
  /\ warned = <<>>
  /\ returned = NoReturn
  /\ thrown = FALSE
  /\ nextCalls = 0
  /\ atReload = EmptyLookup
  /\ sent = <<>>
  /\ layout = NoLayout
  /\ stage = NewStage
  /\ rend = NoRender

InitLedger == \E first \in 0..1 : InitScene(<<>>, first)

NextLedger ==
  \/ \E name \in {"a"} : getFrameEvent(name)
  \/ \E name \in {"a"}, offset \in Offsets, preserve \in BOOLEAN :
       setFrameEvent(name, offset, preserve)
  \/ markAsCached
  \/ reload(FALSE, <<>>)
  \/ Construct(<<>>)
  \/ \E f \in firstFrame..(firstFrame + MaxFrame) : Seek(f)

SpecLedger == InitLedger /\ [][NextLedger]_vars

\* The ledger with two names and one offset, for what concerns the set of events.
InitNotify == InitScene(<<>>, 0)

NextNotify ==
  \/ \E name \in Names : getFrameEvent(name)
  \/ \E name \in Names, preserve \in BOOLEAN : setFrameEvent(name, OneSecond, preserve)
  \/ markAsCached
  \/ reload(FALSE, <<>>)
  \/ \E f \in {firstFrame, firstFrame + 1} : Seek(f)

SpecNotify == InitNotify /\ [][NextNotify]_vars

\* The lifecycle and the scheduler, over a node tree that stays clean.
InitSched == \E routine \in Routines : InitScene(routine, 0)

NextSched ==
  \/ \E previous \in {NoScene, PrevScene}, cascade \in Settled :
       reset(previous, cascade)
  \/ \E cascade \in Settled : next(cascade)
  \/ \E value \in Values, cascade \in Settled : PromiseResolve(value, cascade)
  \/ PromiseReject
  \/ canFinish
  \/ \E strategy \in BOOLEAN, yields \in 0..MaxSteps : transition(strategy, yields)
  \/ TransitionResume
  \/ \E swap \in BOOLEAN, routine \in ReloadRoutines : reload(swap, routine)

SpecSched == InitSched /\ [][NextSched]_vars

\* updateLayout() alone.  The loop is synchronous code: once begun it runs on.
InitLayout == InitScene(<<>>, 0)

NextLayout ==
  \/ \E cascade \in (0..MaxCascade) \cup {Forever} : updateLayout(cascade)
  \/ LayoutPass
  \/ LayoutReturn

\* one Stage: configure() at any time, render() calls one after another
InitStage == InitScene(<<>>, 0)

NextStage ==
  \/ \E options \in StageSettings, support \in BOOLEAN : configure(options, support)
  \/ \E previous \in BOOLEAN, flag \in BOOLEAN : render(previous, flag)
  \/ PreviousRendered
  \/ CurrentRendered
  \/ \E buffer \in Buffers : resizeCanvas(buffer)

SpecStage == InitStage /\ [][NextStage]_vars

SpecLayout ==
  InitLayout /\ [][NextLayout]_vars /\ WF_vars(LayoutPass) /\ WF_vars(LayoutReturn)

\* The scheduler alone, with routines that may handle a failed promise, and
\* another scene advancing meanwhile.
InitAsync == \E routine \in RoutinesAsync : InitScene(routine, 0)

NextAsync ==
  \/ \E cascade \in Cascades : reset(NoScene, cascade)
  \/ \E cascade \in Cascades : next(cascade)
  \/ \E value \in Values, cascade \in Cascades : PromiseResolve(value, cascade)
  \/ PromiseReject
  \/ OtherSceneNext

SpecAsync == InitAsync /\ [][NextAsync]_vars

-----------------------------------------------------------------------------
(* Properties of the lifecycle state machine and the scheduler (SpecSched) *)

\* C1: canFinish() takes the state from AfterTransitionIn to CanTransitionOut
\* and the state becomes CanTransitionOut in no other way; called in any other
\* state (Initial, CanTransitionOut, Finished) it logs a warning and leaves the
\* state as it was.
C1_CanFinish ==
  [][/\ lastCall'.op = "canFinish" =>
          IF state = AfterTransitionIn
          THEN state' = CanTransitionOut /\ warned' = <<>>
          ELSE state' = state /\ Len(warned') = 1
     /\ (state' = CanTransitionOut /\ state # CanTransitionOut) =>
          (lastCall'.op = "canFinish" /\ state = AfterTransitionIn)]_vars

\* canFinish() was called in Initial: a warning, and the state still Initial
C1_Witness ==
  /\ lastCall.op = "canFinish"
  /\ state = Initial
  /\ Len(warned) = 1

\* C2: the state becomes AfterTransitionIn only when the transition generator
\* runs to its end, only from Initial and only once the strategy has no yield
\* left; a resumption that leaves the strategy suspended leaves the state as it
\* was; when the generator ends in a state other than Initial the state is left
\* as it was and a warning is logged.
C2_TransitionIn ==
  [][/\ (state' = AfterTransitionIn /\ state # AfterTransitionIn) =>
          /\ lastCall'.op = "transition.next"
          /\ state = Initial
          /\ trans.left = 0
          /\ trans'.status = "done"
     /\ (lastCall'.op = "transition.next" /\ trans'.status = "suspended") =>
          (state' = state /\ warned' = <<>>)
     /\ lastCall'.op = "transition" => state' = state
     /\ (lastCall'.op = "transition.next" /\ trans'.status = "done") =>
          IF state = Initial
          THEN state' = AfterTransitionIn /\ warned' = <<>>
          ELSE state' = state /\ Len(warned') = 1]_vars

\* a transition with a strategy that yielded has ended and moved the scene on
C2_Witness ==
  /\ lastCall.op = "transition.next"
  /\ trans.status = "done"
  /\ trans.strategy
  /\ state = AfterTransitionIn

\* C3: Finished is terminal.  A call of next() (reset()'s included) that returns
\* leaves the state Finished exactly when the generator reported done; from
\* Finished no next(), canFinish() or transition step changes the state, only
\* reset() does; canTransitionOut() is true whenever the state is Finished.
C3_FinishedIsTerminal ==
  [][/\ (state' = Finished) <=> (runner'.done)
     /\ (lastCall'.op \in {"next", "resolve"} /\ ~runner'.done) => state' = state
     /\ (state = Finished /\ lastCall'.op # "reset") => state' = Finished
     /\ state' = Finished => canTransitionOut']_vars

\* next() was called again on a scene that was already Finished
C3_Witness ==
  /\ lastCall.op = "next"
  /\ state = Finished
  /\ canTransitionOut
  /\ nextCalls > Len(runner.routine) + 1

\* the yields of nothing in a routine
NoValueYields(routine) ==
  Cardinality({i \in 1..Len(routine) : routine[i] = "none"})

\* a routine that yields no promise
Synchronous(routine) == \A i \in 1..Len(routine) : routine[i] # "promise"

\* C10: for a routine that yields no promise, the scene is Finished exactly from
\* the call of next() numbered (yields of nothing + 1) after reset(), the call
\* reset() makes itself counted as the first; values that are no promise use up
\* no call, and the number is the same after every reset() of the same routine.
C10_FinishedAfterFixedCalls ==
  (runner # NoRunner /\ Synchronous(runner.routine)) =>
    /\ pc = "idle"
    /\ (state = Finished) <=> (nextCalls >= NoValueYields(runner.routine) + 1)

\* a routine with an invalid value and a yield of nothing finished at its second call
C10_Witness ==
  /\ runner.routine = <<"invalid", "none">>
  /\ state = Finished
  /\ nextCalls = 2
  /\ lastCall.op = "next"

-----------------------------------------------------------------------------
(* Properties of the time-event ledger (SpecLedger, SpecNotify) *)

\* C4: setFrameEvent(name, offset, preserve) for a name that is not live, or with
\* the offset the live event already has, changes neither lookup, nor the cached
\* flag, nor the preserve flag, whatever the preserve argument, and notifies no
\* listener.
C4_SetFrameEventNoOp ==
  [][(/\ lastCall'.op = "setFrameEvent"
      /\ \/ lastCall'.name \notin DOMAIN timeEventLookup
         \/ timeEventLookup[lastCall'.name].offset = lastCall'.offset) =>
       /\ UNCHANGED <<timeEventLookup, storedEventLookup, cached, preserveEvents,
                      storage>>
       /\ dispatched' = <<>>]_vars

\* a cached scene was given the offset it already had, with another preserve value
C4_Witness ==
  /\ lastCall.op = "setFrameEvent"
  /\ lastCall.name \in DOMAIN timeEventLookup
  /\ timeEventLookup[lastCall.name].offset = lastCall.offset
  /\ lastCall.preserve # preserveEvents
  /\ cached
  /\ dispatched = <<>>

\* C5: setFrameEvent(name, o) on a live event whose offset is not o leaves the
\* live and the durable record of name with offset o and targetTime
\* initialTime + o, and cached false; getFrameEvent(name) called next, at the
\* frame the event's initialTime belongs to, returns
\* firstFrame + secondsToFrames(initialTime + o).
C5_SetThenGet ==
  [][/\ (/\ lastCall'.op = "setFrameEvent"
         /\ lastCall'.name \in DOMAIN timeEventLookup
         /\ timeEventLookup[lastCall'.name].offset # lastCall'.offset) =>
          LET name == lastCall'.name
              o == lastCall'.offset
              initialTime == timeEventLookup[name].initialTime
          IN  /\ timeEventLookup'[name] =
                   TimeEvent(name, initialTime, initialTime + o, o)
              /\ name \in DOMAIN storedEventLookup'
              /\ storedEventLookup'[name] = timeEventLookup'[name]
              /\ ~cached'
     /\ (/\ lastCall.op = "setFrameEvent"
         /\ dispatched # <<>>
         /\ lastCall' = Call("getFrameEvent", lastCall.name, 0, FALSE)
         /\ timeEventLookup[lastCall.name].initialTime =
              framesToSeconds(frame - firstFrame)) =>
          returned' = firstFrame + secondsToFrames(
                        timeEventLookup[lastCall.name].initialTime + lastCall.offset)]_vars

\* the event was requested at the scene's first frame, moved by one second, and
\* requested again: the frame returned is FPS frames later
C5_Witness ==
  /\ lastCall = Call("getFrameEvent", "a", 0, FALSE)
  /\ firstFrame = 1
  /\ timeEventLookup["a"] = TimeEvent("a", 0, OneSecond, OneSecond)
  /\ returned = firstFrame + FPS
  /\ dispatched = <<>>

\* the event requested first after a reload(), outside preserve mode, at the
\* initialTime it had before the reload()
RoundTrip(name) ==
  /\ lastCall = Call("getFrameEvent", name, 0, FALSE)
  /\ name \in DOMAIN atReload
  /\ name \in DOMAIN timeEventLookup
  /\ ~preserveEvents
  /\ timeEventLookup[name].initialTime = atReload[name].initialTime

\* C6 as stated: after reload(), getFrameEvent(name) outside preserve mode at
\* the same initialTime gives the event the offset it had before the reload(),
\* whatever offset setFrameEvent had stored.
C6_RoundTripAnyOffset ==
  \A name \in Names :
    RoundTrip(name) => timeEventLookup[name].offset = atReload[name].offset

\* C6 amended: the offset comes back when it was not negative; a negative offset
\* comes back as 0.
C6_RoundTripNonNegative ==
  \A name \in Names :
    RoundTrip(name) =>
      timeEventLookup[name].offset = Max(0, atReload[name].offset)

\* an offset of one second came back through reload()
C6_Witness ==
  /\ RoundTrip("a")
  /\ atReload["a"].offset = OneSecond
  /\ timeEventLookup["a"].offset = OneSecond

\* C7: a scene constructed right after markAsCached() recovers, for every event
\* live at markAsCached(), a record identical to that event.
C7_ConstructRecoversLiveEvents ==
  [][(lastCall.op = "markAsCached" /\ lastCall'.op = "construct") =>
       \A name \in DOMAIN timeEventLookup :
         /\ name \in DOMAIN storedEventLookup'
         /\ storedEventLookup'[name] = timeEventLookup[name]]_vars

\* C8 as stated: every live event has offset = targetTime - initialTime, and
\* outside preserve mode no live offset is negative.
C8_OffsetInvariant ==
  \A name \in DOMAIN timeEventLookup :
    LET event == timeEventLookup[name]
    IN  /\ event.offset = event.targetTime - event.initialTime
        /\ ~preserveEvents => event.offset >= 0

\* C8 amended: every live event has offset = targetTime - initialTime, or offset
\* 0 with targetTime before initialTime (the clamp).  An event that
\* getFrameEvent has just made or updated outside preserve mode has
\* offset = max(0, targetTime - initialTime); an event that setFrameEvent has
\* just changed has the offset it was given, negative or not, in either mode.
C8_OffsetClamped ==
  /\ \A name \in DOMAIN timeEventLookup :
       LET event == timeEventLookup[name]
       IN  \/ event.offset = event.targetTime - event.initialTime
           \/ event.offset = 0 /\ event.targetTime < event.initialTime
  /\ (lastCall.op = "getFrameEvent" /\ dispatched # <<>> /\ ~preserveEvents) =>
       LET event == timeEventLookup[lastCall.name]
       IN  event.offset = Max(0, event.targetTime - event.initialTime)
  /\ (lastCall.op = "setFrameEvent" /\ dispatched # <<>>) =>
       /\ timeEventLookup[lastCall.name].offset = lastCall.offset
       /\ preserveEvents = lastCall.preserve

\* getFrameEvent clamped the offset of an event whose target lies before its
\* new initialTime
C8_Witness ==
  /\ lastCall = Call("getFrameEvent", "a", 0, FALSE)
  /\ dispatched # <<>>
  /\ ~preserveEvents
  /\ timeEventLookup["a"].targetTime < timeEventLookup["a"].initialTime
  /\ timeEventLookup["a"].offset = 0

\* C9: a call that changes the live ledger, and every reload(), sends exactly
\* one notification, whose payload is the set of live events as the call left
\* it (empty for reload()); a call that leaves the ledger as it was sends none.
C9_Notifications ==
  [][IF lastCall'.op = "reload"
     THEN timeEventLookup' = EmptyLookup /\ dispatched' = <<{}>>
     ELSE IF timeEventLookup' # timeEventLookup
          THEN dispatched' =
                 <<{timeEventLookup'[n] : n \in DOMAIN timeEventLookup'}>>
          ELSE dispatched' = <<>>]_vars

\* with two events live, a drift of one of them was notified with both
C9_Witness ==
  /\ lastCall.op = "getFrameEvent"
  /\ DOMAIN timeEventLookup = Names
  /\ Len(dispatched) = 1
  /\ Cardinality(dispatched[1]) = 2
  /\ lastCall.name \in DOMAIN storedEventLookup
  /\ storedEventLookup[lastCall.name] = timeEventLookup[lastCall.name]
  /\ timeEventLookup[lastCall.name].initialTime > 0

-----------------------------------------------------------------------------
(* Properties of promises in next() (SpecAsync) *)

\* C11: a failure of the awaited promise that the routine handles at its
\* suspension point is not surfaced to the caller of next(); only a failure
\* the routine does not handle is.
C11_HandledFailureStaysInside ==
  ~(/\ lastCall.op = "reject"
    /\ thrown
    /\ Yielded(runner) = "guarded")

\* the warnings about values that are no promise
InvalidWarnings(warnings) ==
  SelectSeq(warnings, LAMBDA warning : warning = "Invalid value")

\* C12: a call of next() on a scene that has a runner (reset() gives it one)
\* does not fail on values that are no promise: each is
\* warned about and the generator resumed with no argument in the same call,
\* until it yields nothing, yields a promise or completes; at a promise the
\* call suspends, the generator stays where it is until the promise settles,
\* and a fulfilled promise resumes it with exactly the value it settled with.
C12_InvalidValuesAndPromises ==
  [][/\ (lastCall'.op \in {"next", "reset", "resolve"} /\ runner' # NoRunner) =>
          LET from == IF lastCall'.op = "reset" THEN 0 ELSE runner.pos
              first == IF lastCall'.op = "resolve" THEN lastCall'.name ELSE Undefined
              routine == runner'.routine
              passed == IF runner'.done THEN (from + 1)..Len(routine)
                        ELSE (from + 1)..(runner'.pos - 1)
          IN  /\ ~thrown'
              /\ \A i \in passed : routine[i] = "invalid"
              /\ Len(InvalidWarnings(warned')) = Cardinality(passed)
              /\ sent' = <<first>> \o [i \in 1..Cardinality(passed) |-> Undefined]
              /\ runner'.done \/ Yielded(runner') # "invalid"
              /\ pc' = IF ~runner'.done /\ isPromise(Yielded(runner'))
                       THEN "await" ELSE "idle"
     /\ (pc = "await" /\ lastCall'.op # "resolve") => runner' = runner]_vars

\* a promise settled with v2, the routine got v2, then yielded a value that is
\* no promise and was resumed with nothing
C12_Witness ==
  /\ lastCall = Call("resolve", "v2", 0, FALSE)
  /\ sent = <<"v2", Undefined>>
  /\ warned = <<"Invalid value">>
  /\ ~thrown

\* C17: whenever next() resumes the routine (at its start, reset()'s included,
\* and after an awaited promise settles) the ambient slot holds this scene.
C17_ActiveSceneAtResumption ==
  [][/\ lastCall'.op \in {"next", "reset"} => activeScene' = ThisScene
     /\ lastCall'.op = "resolve" => activeScene = ThisScene]_vars

-----------------------------------------------------------------------------
(* Further properties of the lifecycle (SpecSched) and the ledger (SpecLedger) *)

\* C18: once the transition has ended (AfterTransitionIn, CanTransitionOut) the
\* scene holds no reference to the previous scene.
C18_PreviousSceneReleased ==
  state \in {AfterTransitionIn, CanTransitionOut} => previousScene = NoScene

\* C19: getFrameEvent(name) for a live event whose initialTime differs from the
\* one computed replaces the initialTime; in preserve mode it keeps the offset
\* and sets targetTime = initialTime + offset, outside preserve mode it keeps
\* targetTime and sets offset = max(0, targetTime - initialTime); the record is
\* written to the live ledger and the durable store.  With the initialTime
\* unchanged the call changes nothing, notifies nobody, and returns the frame
\* the same call returned just before.
C19_Drift ==
  [][(lastCall'.op = "getFrameEvent" /\ lastCall'.name \in DOMAIN timeEventLookup) =>
       LET name == lastCall'.name
           old == timeEventLookup[name]
           initialTime == framesToSeconds(frame - firstFrame)
       IN  IF old.initialTime # initialTime
           THEN /\ timeEventLookup'[name] =
                     IF preserveEvents
                     THEN TimeEvent(name, initialTime, initialTime + old.offset,
                                    old.offset)
                     ELSE TimeEvent(name, initialTime, old.targetTime,
                                    Max(0, old.targetTime - initialTime))
                /\ name \in DOMAIN storedEventLookup'
                /\ storedEventLookup'[name] = timeEventLookup'[name]
                /\ returned' = firstFrame + secondsToFrames(
                                 initialTime + timeEventLookup'[name].offset)
           ELSE /\ UNCHANGED <<timeEventLookup, storedEventLookup, cached,
                               preserveEvents, storage>>
                /\ dispatched' = <<>>
                /\ lastCall = lastCall' => returned' = returned]_vars

\* in preserve mode a drifted event kept its negative offset and moved its target
C19_Witness ==
  /\ lastCall = Call("getFrameEvent", "a", 0, FALSE)
  /\ preserveEvents
  /\ dispatched # <<>>
  /\ "a" \in DOMAIN storedEventLookup
  /\ timeEventLookup["a"].initialTime = framesToSeconds(1)
  /\ timeEventLookup["a"] =
       TimeEvent("a", framesToSeconds(1), framesToSeconds(1) - 1, -1)
  /\ storedEventLookup["a"] = timeEventLookup["a"]

\* C20: while the scene is marked as cached, what is persisted under the
\* storage key is the in-memory durable store.
C20_CachedMeansPersisted ==
  cached => (storage.present /\ ParseStored(storage) = storedEventLookup)

-----------------------------------------------------------------------------
(* Properties of updateLayout() (SpecLayout) *)

\* C13: updateLayout() always returns; it makes its first pass and at most 10
\* more; over a tree that every pass leaves dirty it makes exactly 10 more,
\* logs a warning and returns.
C13_LayoutBounded ==
  /\ [](/\ layout.passes <= 1 + 10
        /\ (lastCall.op = "updateLayout.return" /\ layout.cascade = Forever) =>
             (layout.passes = 1 + 10 /\ Len(warned) = 1))
  /\ (layout.pc = "loop") ~> (layout.pc = "idle")

\* updateLayout() returned from a tree that never settles
C13_Witness ==
  /\ lastCall.op = "updateLayout.return"
  /\ layout.cascade = Forever
  /\ layout.dirty
  /\ layout.passes = 11
  /\ layout.limit = 0
  /\ Len(warned) = 1

-----------------------------------------------------------------------------
(* Properties of the Stage (SpecStage) *)

\* C14: after every configure() the Stage has an accumulator exactly when the
\* call's effective sample count (the count passed, else motionBlurSamples) is
\* above 1 and checkSupport() reported support; a scene render goes through
\* the accumulator exactly when there is one, and is direct otherwise.
C14_AccumulatorIffEnabled ==
  [][/\ lastCall'.op = "configure" =>
          (stage'.moblurRenderer.present <=>
             (/\ Default(stage'.asked.motionBlur, stage.motionBlurSamples) > 1
              /\ stage'.asked.support))
     /\ Len(rend'.via) # Len(rend.via) =>
          (rend'.via[Len(rend'.via)] = "direct" <=> ~stage.moblurRenderer.present)
    ]_vars

\* configure({motionBlur: 3}) with support has just built an accumulator
C14_Witness ==
  /\ lastCall.op = "configure"
  /\ stage.asked = [motionBlur |-> Given(3), support |-> TRUE]
  /\ stage.moblurRenderer.present
  /\ stage.moblurRenderer.samples = 3

\* C15: once an accumulator exists, a configure() call with support that does
\* not pass a count <= 1 keeps the same accumulator object, resized, with the
\* count passed (if one is passed).
C15_AccumulatorKept ==
  [][(/\ lastCall'.op = "configure"
      /\ stage.moblurRenderer.present
      /\ stage'.asked.support
      /\ ~(stage'.asked.motionBlur.given /\ stage'.asked.motionBlur.value <= 1))
     => /\ stage'.moblurRenderer.present
        /\ stage'.moblurRenderer.id = stage.moblurRenderer.id
        /\ stage'.moblurRenderer.size = stage'.size
        /\ stage'.asked.motionBlur.given =>
             stage'.moblurRenderer.samples = stage'.asked.motionBlur.value
    ]_vars

\* C16: nothing is drawn while a scene render is pending; the previous scene
\* (if any) and then the current scene are rendered first; the drawing is
\* clear, fill iff a background is set, then previous and current in the order
\* previousOnTop gives, the previous buffer once iff a previous scene is given;
\* all of the drawing is one step.
C16_CompositeOrder ==
  [][/\ rend'.pc # "idle" => rend'.ops = <<>>
     /\ rend'.ops # rend.ops =>
          \/ rend'.ops = <<>>
          \/ /\ rend.ops = <<>>
             /\ rend'.pc = "idle"
             /\ rend'.rendered = (IF rend.previous THEN <<"previous">> ELSE <<>>)
                                   \o <<"current">>
             /\ rend'.ops =
                  <<"clear">>
                  \o (IF stage.background \in {String("#000"),
                                               String("rgba(255,0,0,1)")}
                      THEN <<"fill">> ELSE <<>>)
                  \o (CASE ~rend.previous -> <<"current">>
                        [] rend.previous /\ rend.flag -> <<"current", "previous">>
                        [] OTHER -> <<"previous", "current">>)
    ]_vars

\* a frame with a previous scene drawn on top of the current one, over a fill
C16_Witness ==
  /\ lastCall.op = "render.current"
  /\ rend.previous
  /\ rend.flag
  /\ rend.rendered = <<"previous", "current">>
  /\ rend.ops = <<"clear", "fill", "current", "previous">>

====
